---- MODULE Spec2Model ----
(***************************************************************************)
(* Model of scripts/analyze_savings.py: the fare-table loader              *)
(* (load_fare_data), the savings analyzer (analyze_savings) and the        *)
(* __main__ block that chains them.                                        *)
(*                                                                         *)
(* Three specifications share the same actions:                            *)
(*   Spec      the whole run on an arbitrary small CSV file;               *)
(*   SpecAsc   the whole run on a well-formed file over four stations      *)
(*             (records in the ascending direction only), large enough for *)
(*             a pair to have two usable intermediates;                    *)
(*   SpecCall  a direct call of analyze_savings on an arbitrary small      *)
(*             table and station list.                                     *)
(***************************************************************************)
EXTENDS Integers, Sequences, FiniteSets, TLC

----------------------------------------------------------------------------
(* Bounds of the model *)

\* records read from the file in Spec
MaxRows == 3
\* records read from the file in SpecAsc
MaxAscRows == 5
\* largest fare amount written in a fare field of the file in SpecAsc
MaxFare == 1
\* keys of the table handed to a direct call in SpecCall
MaxEntries == 2

----------------------------------------------------------------------------
(* Values: Python None, floats and the two outcomes of a dictionary lookup *)

\* Python's None: the invalid-fare marker of line 41, the result of
\* dict.get on a missing key, and the "no data" halves of lines 23/47/50
None == [tag |-> "None"]

\* a finite float
Num(n) == [tag |-> "num", val |-> n]

\* float('inf'), line 76
Inf == [tag |-> "inf"]

IsNum(x) == x.tag = "num"

\* a < b on floats (finite or +inf)
FLess(a, b) ==
    IF IsNum(a) /\ IsNum(b) THEN a.val < b.val
    ELSE IsNum(a) /\ b = Inf

\* a + b on floats (finite or +inf)
FAdd(a, b) == IF IsNum(a) /\ IsNum(b) THEN Num(a.val + b.val) ELSE Inf

\* a - b on floats, used only with b < a (line 102)
FSub(a, b) == IF IsNum(a) /\ IsNum(b) THEN Num(a.val - b.val) ELSE Inf

\* the empty dict {}
EmptyDict == << >>

\* d.get(k): the value under k, None when k is not a key
DictGet(d, k) == IF k \in DOMAIN d THEN d[k] ELSE None

\* d[k] = v on a dict
DictSet(d, k, v) == [x \in (DOMAIN d) \cup {k} |-> IF x = k THEN v ELSE d[x]]

----------------------------------------------------------------------------
(* The CSV file: column names and field texts *)

SRC == "SRC_STATION_ID"
DEST == "DEST_STATION_ID"
OCT == "OCT_ADT_FARE"
SINGLE == "SINGLE_ADT_FARE"

\* DictReader's restval for a field a short record lacks (Python None)
Missing == "<None>"

\* PAYMENT_METHOD_TO_ANALYZE
PAYMENT_METHOD_TO_ANALYZE == OCT

\* 'FARE' in key, for the column names of the model
HasFARE(key) == key \in {OCT, SINGLE}

\* expected_headers
expected_headers == <<SRC, DEST>>

\* Header rows of the files of Spec; << >> stands for an empty file, whose
\* reader.fieldnames is None
Headers == { <<SRC, DEST, OCT>>, <<SRC, OCT>>, <<DEST, OCT>>, <<OCT>>, << >> }

\* texts of a station-identifier field
IdTexts == {"1", "2", "3", "x"}

\* the outcome of int(text) or float(text) on a text that is no number
ValueError == [tag |-> "ValueError"]

\* int(text): the integer, or ValueError
ParseInt(text) ==
    CASE text = "1" -> Num(1)
      [] text = "2" -> Num(2)
      [] text = "3" -> Num(3)
      [] text = "4" -> Num(4)
      [] OTHER -> ValueError

\* the decimal text of a small integer, as written in a fare field
NumText(n) ==
    CASE n = -1 -> "-1"
      [] n = 0 -> "0"
      [] n = 1 -> "1"
      [] n = 2 -> "2"
      [] n = 3 -> "3"
      [] OTHER -> "4"

\* texts of a fare field in Spec: empty, not a number, a negative amount,
\* infinity and an ordinary amount
FareTexts == {"", "abc", "-1", "inf", "1"}

\* texts of a fare field in SpecAsc: not a number, and the amounts 0..MaxFare
AscFareTexts == {"abc"} \cup {NumText(n) : n \in 0..MaxFare}

\* float(text): the float, or ValueError
ParseFloat(text) ==
    CASE text = "-1" -> Num(-1)
      [] text = "0" -> Num(0)
      [] text = "1" -> Num(1)
      [] text = "2" -> Num(2)
      [] text = "3" -> Num(3)
      [] text = "4" -> Num(4)
      [] text = "inf" -> Inf
      [] OTHER -> ValueError

\* the texts a field under column `col` may hold
FieldTexts(col) == IF HasFARE(col) THEN FareTexts ELSE IdTexts

\* all sequences over position-dependent text sets: position i of a record
\* of n fields holds a text of column header[i], a field past the header "9"
RECURSIVE Records(_, _)
Records(header, n) ==
    IF n = 0 THEN { << >> }
    ELSE { Append(r, t) : r \in Records(header, n - 1),
                          t \in IF n <= Len(header)
                                THEN FieldTexts(header[n]) ELSE {"9"} }

\* the records a file of Spec with this header may hold: full records,
\* short ones (fields missing at the end) and long ones (one extra field)
Rows(header) == UNION { Records(header, n) : n \in 1..(Len(header) + 1) }

\* the records of a file of SpecAsc: both identifiers valid, origin below
\* destination, one fare field
AscRows ==
    { r \in {"1", "2", "3", "4"} \X {"1", "2", "3", "4"} \X AscFareTexts :
        ParseInt(r[1]).val < ParseInt(r[2]).val }

----------------------------------------------------------------------------
(* load_fare_data *)

\* csv.DictReader: the dict of one record. Columns the record has no field
\* for hold restval (None); fields past the header go under the key None
\* (restkey), modelled by `extra`.
DictRow(header, fields) ==
    [ cols |-> [ i \in 1..Len(header) |->
                   IF i <= Len(fields) THEN fields[i] ELSE Missing ],
      extra |-> Len(fields) > Len(header) ]

\* the outcome of row[col] when the header has no column col
KeyError == "<KeyError>"

\* row[col]
RowGet(header, row, col) ==
    IF \E i \in 1..Len(header) : header[i] = col
    THEN row.cols[CHOOSE i \in 1..Len(header) : header[i] = col]
    ELSE KeyError

\* mutant of HeaderOk: any() in place of all()
HeaderOkAny(header) ==
    \E k \in 1..Len(expected_headers) :
        \E i \in 1..Len(header) : header[i] = expected_headers[k]

\* all(h in reader.fieldnames for h in expected_headers), line 21
HeaderOk(header) ==
    \A k \in 1..Len(expected_headers) :
        \E i \in 1..Len(header) : header[i] = expected_headers[k]

\* fares[(start_id, dest_id)][key] = v on the defaultdict(dict)
FaresStore(f, pair, key, v) ==
    [p \in (DOMAIN f) \cup {pair} |->
        IF p = pair
        THEN DictSet(IF pair \in DOMAIN f THEN f[pair] ELSE EmptyDict, key, v)
        ELSE f[p]]

\* mutant of StoreFare: an empty or missing field is loaded as 0.0
StoreFareZero(f, pair, key, value) ==
    IF value = Missing \/ value = ""
    THEN FaresStore(f, pair, key, Num(0))
    ELSE IF ParseFloat(value) = ValueError
         THEN FaresStore(f, pair, key, None)
         ELSE FaresStore(f, pair, key, ParseFloat(value))

\* lines 35-41: one fare field of a record
StoreFare(f, pair, key, value) ==
    IF value = Missing \/ value = ""
    THEN f
    ELSE IF ParseFloat(value) = ValueError
         THEN FaresStore(f, pair, key, None)
         ELSE FaresStore(f, pair, key, ParseFloat(value))

\* lines 33-41: the loop over row.items(), columns in header order
RECURSIVE StoreFares(_, _, _, _, _)
StoreFares(f, pair, header, row, i) ==
    IF i > Len(header) THEN f
    ELSE StoreFares(
           IF HasFARE(header[i])
           THEN StoreFare(f, pair, header[i], row.cols[i]) ELSE f,
           pair, header, row, i + 1)

\* lines 26-44: one record. raised: "no" (record loaded), "skip" (ValueError
\* or KeyError, caught at line 42) or "abort" (any other exception, which
\* leaves the loop and is caught at line 48)
ProcessRow(f, st, header, row) ==
    LET src == RowGet(header, row, SRC)
        dst == RowGet(header, row, DEST)
    IN  IF src = KeyError THEN [fares |-> f, stations |-> st, raised |-> "skip"]
        ELSE IF src = Missing
        THEN [fares |-> f, stations |-> st, raised |-> "abort"]
        ELSE IF ParseInt(src) = ValueError
        THEN [fares |-> f, stations |-> st, raised |-> "skip"]
        ELSE IF dst = KeyError
        THEN [fares |-> f, stations |-> st, raised |-> "skip"]
        ELSE IF dst = Missing
        THEN [fares |-> f, stations |-> st, raised |-> "abort"]
        ELSE IF ParseInt(dst) = ValueError
        THEN [fares |-> f, stations |-> st, raised |-> "skip"]
        ELSE LET pair == <<ParseInt(src).val, ParseInt(dst).val>>
             IN  [ fares |-> StoreFares(f, pair, header, row, 1),
                   stations |-> st \cup {pair[1], pair[2]},
                   raised |-> IF row.extra THEN "abort" ELSE "no" ]

\* sorted(list(stations)), line 53
RECURSIVE sorted(_)
sorted(S) ==
    IF S = {} THEN << >>
    ELSE LET m == CHOOSE x \in S : \A y \in S : x <= y
         IN  <<m>> \o sorted(S \ {m})

----------------------------------------------------------------------------
(* analyze_savings *)

\* itertools.permutations(stations, 2): the ordered pairs of two different
\* positions of the list, in lexicographic order of the positions
permutations(L) ==
    LET n == Len(L)
    IN  [ k \in 1..(n * (n - 1)) |->
            LET i == ((k - 1) \div (n - 1)) + 1
                r == ((k - 1) % (n - 1)) + 1
                j == IF r < i THEN r ELSE r + 1
            IN  <<L[i], L[j]>> ]

\* mutant of FaresGet: fares[key], which runs the default factory and
\* inserts {} under a key the table lacks
FaresGetItem(f, key) ==
    [ info |-> IF key \in DOMAIN f THEN f[key] ELSE EmptyDict,
      fares |-> IF key \in DOMAIN f THEN f
                ELSE [k \in (DOMAIN f) \cup {key} |->
                        IF k = key THEN EmptyDict ELSE f[k]] ]

\* fares.get(key, {}) on the defaultdict: the entry (or {}), and the table
\* after the lookup (dict.get does not run the default factory)
FaresGet(f, key) ==
    [ info |-> IF key \in DOMAIN f THEN f[key] ELSE EmptyDict, fares |-> f ]

\* fares.get((a, b), {}).get(payment_method), lines 68-69, 85-86, 89-90
GetFare(f, key, method) ==
    LET g == FaresGet(f, key)
    IN  [ fare |-> DictGet(g.info, method), fares |-> g.fares ]

\* line 93
BothValid(fare1, fare2) == fare1 /= None /\ fare2 /= None

\* mutant of Cheaper: every usable intermediate replaces the one retained
AlwaysCheaper(total_intermediate_fare, min_fare) == TRUE

\* mutant of Cheaper: <= in place of <
CheaperOrEqual(total_intermediate_fare, min_fare) ==
    ~FLess(min_fare, total_intermediate_fare)

\* line 96
Cheaper(total_intermediate_fare, min_fare) ==
    FLess(total_intermediate_fare, min_fare)

\* mutant of OffersSaving: <= in place of <
OffersSavingOrEqual(optimal, min_fare, direct) ==
    optimal /= None /\ ~FLess(direct, min_fare)

\* line 101
OffersSaving(optimal, min_fare, direct) ==
    optimal /= None /\ FLess(min_fare, direct)

\* lines 80-98: the loop over the intermediate stations, from position k on.
\* acc holds the table, min_intermediate_fare, optimal_intermediate_station
\* and the keys looked up so far.
RECURSIVE IntermediateLoop(_, _, _, _, _, _)
IntermediateLoop(L, o, d, method, k, acc) ==
    IF k > Len(L) THEN acc
    ELSE IF L[k] = o \/ L[k] = d
    THEN IntermediateLoop(L, o, d, method, k + 1, acc)
    ELSE LET i == L[k]
             g1 == GetFare(acc.fares, <<o, i>>, method)
             g2 == GetFare(g1.fares, <<i, d>>, method)
             total == FAdd(g1.fare, g2.fare)
             better == BothValid(g1.fare, g2.fare) /\ Cheaper(total, acc.min)
         IN  IntermediateLoop(L, o, d, method, k + 1,
               [ fares |-> g2.fares,
                 min |-> IF better THEN total ELSE acc.min,
                 opt |-> IF better THEN Num(i) ELSE acc.opt,
                 queried |-> acc.queried \cup {<<o, i>>, <<i, d>>} ])

\* a dict or list object
Obj(x) == [tag |-> "obj", items |-> x]

\* truthiness of fare_data / station_list (lines 57 and 138): None, {} and
\* [] are false
Truthy(x) == x /= None /\ DOMAIN x.items /= {}

----------------------------------------------------------------------------
(* State *)

VARIABLES
    pc,                  \* where the run is: "load", "rows", "main", "call",
                         \* "pairs", "exit"
    file_exists,         \* whether open(filepath) finds the file
    fieldnames,          \* reader.fieldnames: the header row
    rows_read,           \* records the reader has yielded so far
    fares,               \* load_fare_data: fares
    stations,            \* load_fare_data: stations
    fare_data,           \* __main__: fare_data, the fares of analyze_savings
    station_list,        \* __main__: station_list, the stations of
                         \* analyze_savings
    payment_method,      \* analyze_savings: payment_method
    pair_index,          \* position of the outer loop in permutations(...)
    total_pairs_analyzed,
    saving_pairs_count,
    savings_list,
    direct_fare,
    min_intermediate_fare,
    optimal_intermediate_station,
    saving_routes,       \* history: <<start, optimal intermediate, dest>> of
                         \* each saving appended (the print of line 106)
    queried,             \* history: the keys passed to fares.get in the call
    returned,            \* return value of analyze_savings, None before
    report               \* the last line the run printed about its outcome

loaderVars == <<file_exists, fieldnames, rows_read, fares, stations>>

analyzerVars ==
    <<pair_index, total_pairs_analyzed, saving_pairs_count, savings_list,
      direct_fare, min_intermediate_fare, optimal_intermediate_station,
      saving_routes, queried, returned>>

vars ==
    <<pc, file_exists, fieldnames, rows_read, fares, stations, fare_data,
      station_list, payment_method, pair_index, total_pairs_analyzed,
      saving_pairs_count, savings_list, direct_fare, min_intermediate_fare,
      optimal_intermediate_station, saving_routes, queried, returned, report>>

\* analyze_savings not entered yet: its locals are unbound
AnalyzerUnbound ==
    /\ pair_index = 0
    /\ total_pairs_analyzed = 0
    /\ saving_pairs_count = 0
    /\ savings_list = << >>
    /\ direct_fare = None
    /\ min_intermediate_fare = None
    /\ optimal_intermediate_station = None
    /\ saving_routes = << >>
    /\ queried = {}
    /\ returned = None

\* the run of __main__ starts on some file: absent, or present with one of
\* the headers (lines 12-15, 134-136)
Init ==
    /\ pc = "load"
    /\ \/ file_exists = FALSE /\ fieldnames = << >>
       \/ file_exists = TRUE /\ fieldnames \in Headers
    /\ rows_read = 0
    /\ fares = << >>
    /\ stations = {}
    /\ fare_data = None
    /\ station_list = None
    /\ payment_method = PAYMENT_METHOD_TO_ANALYZE
    /\ AnalyzerUnbound
    /\ report = ""

----------------------------------------------------------------------------
(* Actions of load_fare_data *)

\* return None, None (lines 23, 47, 50)
ReturnNoData ==
    /\ fare_data' = None
    /\ station_list' = None
    /\ fares' = << >>
    /\ stations' = {}
    /\ rows_read' = 0
    /\ pc' = "main"

\* lines 16-23: open the file and check the header. A missing file raises
\* FileNotFoundError (line 45); an empty file has fieldnames None, so the
\* check of line 21 raises TypeError (line 48).
load_open ==
    /\ pc = "load"
    /\ IF ~file_exists \/ fieldnames = << >> \/ ~HeaderOk(fieldnames)
       THEN ReturnNoData
       ELSE /\ pc' = "rows"
            /\ UNCHANGED <<rows_read, fares, stations, fare_data, station_list>>
    /\ UNCHANGED <<file_exists, fieldnames, payment_method, analyzerVars, report>>

\* lines 25-50: the reader yields the record `fields`
LoadRecord(fields) ==
    LET out == ProcessRow(fares, stations, fieldnames,
                          DictRow(fieldnames, fields))
    IN  /\ IF out.raised = "abort"
           THEN ReturnNoData
           ELSE /\ fares' = out.fares
                /\ stations' = out.stations
                /\ rows_read' = rows_read + 1
                /\ pc' = "rows"
                /\ UNCHANGED <<fare_data, station_list>>
        /\ UNCHANGED <<file_exists, fieldnames, payment_method, analyzerVars,
                       report>>

\* one more record of a file of Spec
load_row ==
    /\ pc = "rows"
    /\ rows_read < MaxRows
    /\ \E fields \in Rows(fieldnames) : LoadRecord(fields)

\* one more record of a file of SpecAsc
load_row_asc ==
    /\ pc = "rows"
    /\ rows_read < MaxAscRows
    /\ \E fields \in AscRows : LoadRecord(fields)

\* lines 52-53: the file has no more records
load_return ==
    /\ pc = "rows"
    /\ fare_data' = Obj(fares)
    /\ station_list' = Obj(sorted(stations))
    /\ fares' = << >>
    /\ stations' = {}
    /\ rows_read' = 0
    /\ pc' = "main"
    /\ UNCHANGED <<file_exists, fieldnames, payment_method, analyzerVars, report>>

----------------------------------------------------------------------------
(* __main__ *)

\* lines 138-141
main ==
    /\ pc = "main"
    /\ IF Truthy(fare_data) /\ Truthy(station_list)
       THEN pc' = "call" /\ report' = report
       ELSE pc' = "exit" /\ report' = "Failed to load data. Exiting."
    /\ UNCHANGED <<loaderVars, fare_data, station_list, payment_method,
                   analyzerVars>>

----------------------------------------------------------------------------
(* Actions of analyze_savings *)

\* lines 57-63
analyze_enter ==
    /\ pc = "call"
    /\ IF ~Truthy(fare_data) \/ ~Truthy(station_list)
       THEN /\ report' = "No fare data or stations loaded."
            /\ returned' = Num(0)
            /\ pc' = "exit"
            /\ UNCHANGED <<pair_index, total_pairs_analyzed,
                           saving_pairs_count, savings_list>>
       ELSE /\ saving_pairs_count' = 0
            /\ total_pairs_analyzed' = 0
            /\ savings_list' = << >>
            /\ pair_index' = 1
            /\ pc' = "pairs"
            /\ UNCHANGED <<report, returned>>
    /\ UNCHANGED <<loaderVars, fare_data, station_list, payment_method,
                   direct_fare, min_intermediate_fare,
                   optimal_intermediate_station, saving_routes, queried>>

\* lines 66-104: one iteration of the loop over the ordered pairs
analyze_pair ==
    /\ pc = "pairs"
    /\ pair_index <= Len(permutations(station_list.items))
    /\ LET L == station_list.items
           p == permutations(L)[pair_index]
           g == GetFare(fare_data.items, p, payment_method)
           acc == IntermediateLoop(L, p[1], p[2], payment_method, 1,
                    [ fares |-> g.fares, min |-> Inf, opt |-> None,
                      queried |-> queried \cup {p} ])
       IN  /\ total_pairs_analyzed' = total_pairs_analyzed + 1
           /\ pair_index' = pair_index + 1
           /\ direct_fare' = g.fare
           /\ IF g.fare = None
              THEN /\ fare_data' = Obj(g.fares)
                   /\ queried' = queried \cup {p}
                   /\ UNCHANGED <<min_intermediate_fare,
                                  optimal_intermediate_station, savings_list,
                                  saving_pairs_count, saving_routes>>
              ELSE /\ fare_data' = Obj(acc.fares)
                   /\ queried' = acc.queried
                   /\ min_intermediate_fare' = acc.min
                   /\ optimal_intermediate_station' = acc.opt
                   /\ IF OffersSaving(acc.opt, acc.min, g.fare)
                      THEN /\ savings_list' =
                                Append(savings_list, FSub(g.fare, acc.min))
                           /\ saving_pairs_count' = saving_pairs_count + 1
                           /\ saving_routes' =
                                Append(saving_routes,
                                       <<p[1], acc.opt.val, p[2]>>)
                      ELSE UNCHANGED <<savings_list, saving_pairs_count,
                                       saving_routes>>
    /\ pc' = "pairs"
    /\ UNCHANGED <<loaderVars, station_list, payment_method, returned, report>>

\* lines 113-131: the loop is over; report and return
analyze_return ==
    /\ pc = "pairs"
    /\ pair_index > Len(permutations(station_list.items))
    /\ report' = IF savings_list /= << >>
                 THEN "Minimum/Maximum/Average/Median Saving"
                 ELSE "No savings found for any station pair."
    /\ returned' = Num(saving_pairs_count)
    /\ pc' = "exit"
    /\ UNCHANGED <<loaderVars, fare_data, station_list, payment_method,
                   pair_index, total_pairs_analyzed, saving_pairs_count,
                   savings_list, direct_fare, min_intermediate_fare,
                   optimal_intermediate_station, saving_routes, queried>>

----------------------------------------------------------------------------
(* Specifications *)

Next ==
    \/ load_open
    \/ load_row
    \/ load_return
    \/ main
    \/ analyze_enter
    \/ analyze_pair
    \/ analyze_return

\* the whole run on an arbitrary small file
Spec == Init /\ [][Next]_vars

\* a file of SpecAsc exists and has the full header
InitAsc ==
    /\ Init
    /\ file_exists = TRUE
    /\ fieldnames = <<SRC, DEST, OCT>>

NextAsc ==
    \/ load_open
    \/ load_row_asc
    \/ load_return
    \/ main
    \/ analyze_enter
    \/ analyze_pair
    \/ analyze_return

\* the whole run on a well-formed file over four stations
SpecAsc == InitAsc /\ [][NextAsc]_vars

\* the entries a table handed to a direct call may hold under a key
CallEntries ==
    { [x \in {OCT} |-> Num(0)], [x \in {OCT} |-> Num(2)],
      [x \in {OCT} |-> None] }

\* the tables handed to a direct call: at most MaxEntries keys among the
\* pairs of stations 1..3, the diagonal included
CallTables ==
    UNION { [K -> CallEntries] :
              K \in { S \in SUBSET ((1..3) \X (1..3)) :
                        Cardinality(S) <= MaxEntries } }

\* the station lists handed to a direct call: the stations of a set, each
\* once, in any order
CallLists ==
    { L \in UNION { [1..n -> 1..3] : n \in 0..3 } :
        \A a, b \in 1..Len(L) : a /= b => L[a] /= L[b] }

\* a direct call analyze_savings(fares, stations, payment_method)
InitCall ==
    /\ pc = "call"
    /\ file_exists = FALSE
    /\ fieldnames = << >>
    /\ rows_read = 0
    /\ fares = << >>
    /\ stations = {}
    /\ fare_data \in { Obj(t) : t \in CallTables }
    /\ station_list \in { Obj(L) : L \in CallLists }
    /\ payment_method \in {OCT, SINGLE}
    /\ AnalyzerUnbound
    /\ report = ""

NextCall ==
    \/ analyze_enter
    \/ analyze_pair
    \/ analyze_return

SpecCall == InitCall /\ [][NextCall]_vars

----------------------------------------------------------------------------
(* Vocabulary of the properties *)

\* the elements of a list
Range(L) == { L[k] : k \in 1..Len(L) }

\* get_fare(origin, destination, method): the amount, or None when the pair
\* has no entry, the entry has no such method, or it holds the marker
Fare(f, a, b, method) ==
    IF <<a, b>> \in DOMAIN f /\ method \in DOMAIN f[<<a, b>>]
    THEN f[<<a, b>>][method] ELSE None

\* the table and the station list the analysis works on
Table == fare_data.items
StationSeq == station_list.items

\* the intermediates of (o, d) with both legs present
Usable(o, d) ==
    { i \in Range(StationSeq) \ {o, d} :
        /\ Fare(Table, o, i, payment_method) /= None
        /\ Fare(Table, i, d, payment_method) /= None }

\* leg1 + leg2 through i
Combined(o, i, d) ==
    FAdd(Fare(Table, o, i, payment_method), Fare(Table, i, d, payment_method))

\* the least combined fare over the usable intermediates of (o, d)
MinCombined(o, d) ==
    CHOOSE c \in { Combined(o, i, d) : i \in Usable(o, d) } :
        \A i \in Usable(o, d) : ~FLess(Combined(o, i, d), c)

\* (o, d) has a cheaper two-leg itinerary than its direct fare
HasSaving(o, d) ==
    /\ Usable(o, d) /= {}
    /\ FLess(MinCombined(o, d), Fare(Table, o, d, payment_method))

\* the analysis has been entered and has passed its guard
InLoop == pc = "pairs" \/ (pc = "exit" /\ returned /= None /\ pair_index > 0)

\* the ordered pairs whose iteration is over
Processed ==
    { permutations(StationSeq)[k] : k \in 1..(pair_index - 1) }

\* the positions of the saving sequence recorded for (o, d)
SavingsOf(o, d) ==
    { j \in 1..Len(saving_routes) :
        saving_routes[j][1] = o /\ saving_routes[j][3] = d }

----------------------------------------------------------------------------
(* C1 *)

\* C1: for every ordered pair (O, D) whose iteration is over and whose direct
\* fare is present, a saving is recorded for (O, D) exactly when some
\* intermediate has both legs present and the least combined fare is strictly
\* below the direct fare; the amount is the direct fare minus that least
\* combined fare; the pair has at most one saving; and the count of pairs
\* with savings (also the value returned) is the number of savings recorded.
C1_SavingIffCheaperTwoLeg ==
    /\ InLoop =>
          \A p \in Processed :
             Fare(Table, p[1], p[2], payment_method) /= None =>
               /\ Cardinality(SavingsOf(p[1], p[2])) <= 1
               /\ (SavingsOf(p[1], p[2]) /= {}) <=> HasSaving(p[1], p[2])
               /\ \A j \in SavingsOf(p[1], p[2]) :
                    savings_list[j] =
                      FSub(Fare(Table, p[1], p[2], payment_method),
                           MinCombined(p[1], p[2]))
    /\ Len(savings_list) = Len(saving_routes)
    /\ saving_pairs_count = Len(savings_list)
    /\ (returned /= None => returned = Num(Len(savings_list)))

\* C1 witness: the analysis has returned after recording a saving for a pair
\* that has two usable intermediates with different combined fares
C1_Witness ==
    /\ pc = "exit"
    /\ InLoop
    /\ \E p \in Processed :
         /\ SavingsOf(p[1], p[2]) /= {}
         /\ \E i, j \in Usable(p[1], p[2]) :
              FLess(Combined(p[1], i, p[2]), Combined(p[1], j, p[2]))

----------------------------------------------------------------------------
(* C3 *)

\* C3: at every point of the analysis every amount of the saving sequence is
\* strictly positive, and a pair whose iteration is over and whose direct fare
\* equals the least combined two-leg fare has no saving recorded.
C3_SavingsStrictlyPositive ==
    /\ \A j \in 1..Len(savings_list) : FLess(Num(0), savings_list[j])
    /\ InLoop =>
         \A p \in Processed :
            ( /\ Fare(Table, p[1], p[2], payment_method) /= None
              /\ Usable(p[1], p[2]) /= {}
              /\ MinCombined(p[1], p[2]) =
                    Fare(Table, p[1], p[2], payment_method) )
            => SavingsOf(p[1], p[2]) = {}

\* C3 witness: a saving has been recorded and the iteration of a pair whose
\* direct fare equals its least combined fare is over
C3_Witness ==
    /\ InLoop
    /\ savings_list /= << >>
    /\ \E p \in Processed :
         /\ Fare(Table, p[1], p[2], payment_method) /= None
         /\ Usable(p[1], p[2]) /= {}
         /\ MinCombined(p[1], p[2]) = Fare(Table, p[1], p[2], payment_method)

----------------------------------------------------------------------------
(* C10 *)

\* the savings the table yields, pair by pair in the order of
\* permutations(stations), from position k on
RECURSIVE SavingsFrom(_)
SavingsFrom(k) ==
    IF k > Len(permutations(StationSeq)) THEN << >>
    ELSE LET p == permutations(StationSeq)[k]
             direct == Fare(Table, p[1], p[2], payment_method)
         IN  IF direct /= None /\ HasSaving(p[1], p[2])
             THEN <<FSub(direct, MinCombined(p[1], p[2]))>> \o SavingsFrom(k + 1)
             ELSE SavingsFrom(k + 1)

\* the smallest station among the usable intermediates of (o, d) that reach
\* the least combined fare
EarliestBest(o, d) ==
    CHOOSE i \in Usable(o, d) :
        /\ Combined(o, i, d) = MinCombined(o, d)
        /\ \A j \in Usable(o, d) :
             Combined(o, j, d) = MinCombined(o, d) => i <= j

\* the station identifiers the loaded table mentions
TableStations == UNION { {k[1], k[2]} : k \in DOMAIN Table }

\* C10: the station list load_fare_data returns is strictly ascending (so
\* without duplicates) and lists the stations of the records; the savings are
\* recorded in the order of permutations(stations); for the pair whose
\* iteration ended last (direct fare present) and for every saving recorded,
\* the intermediate retained is the smallest station among those that reach
\* the least combined fare; and the saving sequence the run ends with is the
\* one the table determines.
C10_DeterministicTieBreak ==
    /\ station_list /= None =>
         /\ \A a, b \in 1..Len(StationSeq) :
              a < b => StationSeq[a] < StationSeq[b]
         /\ Range(StationSeq) = TableStations
    /\ InLoop =>
         /\ \A j \in 1..Len(saving_routes) :
              saving_routes[j][2] =
                EarliestBest(saving_routes[j][1], saving_routes[j][3])
         /\ ( /\ pair_index > 1
              /\ direct_fare /= None
              /\ Usable(permutations(StationSeq)[pair_index - 1][1],
                        permutations(StationSeq)[pair_index - 1][2]) /= {} )
            => optimal_intermediate_station =
                 Num(EarliestBest(permutations(StationSeq)[pair_index - 1][1],
                                  permutations(StationSeq)[pair_index - 1][2]))
         /\ pc = "exit" => savings_list = SavingsFrom(1)

\* C10 witness: the run has ended with a saving recorded for a pair that has
\* two usable intermediates tied for the least combined fare
C10_Witness ==
    /\ pc = "exit"
    /\ InLoop
    /\ \E j \in 1..Len(saving_routes) :
         LET o == saving_routes[j][1]
             d == saving_routes[j][3]
         IN  \E a, b \in Usable(o, d) :
               /\ a /= b
               /\ Combined(o, a, d) = MinCombined(o, d)
               /\ Combined(o, b, d) = MinCombined(o, d)

----------------------------------------------------------------------------
(* C4 *)

\* the file is absent, or its header lacks the origin or the destination
\* column (an empty file has no header at all)
SourceUnusable ==
    \/ ~file_exists
    \/ SRC \notin Range(fieldnames)
    \/ DEST \notin Range(fieldnames)

\* C4: once load_fare_data has run on an absent file or on a header without
\* the origin or the destination column, it has returned (None, None), and
\* the run ends with "Failed to load data. Exiting." without entering
\* analyze_savings.
C4_NoDataOnUnusableSource ==
    (SourceUnusable /\ pc /= "load") =>
        /\ pc \in {"main", "exit"}
        /\ fare_data = None
        /\ station_list = None
        /\ AnalyzerUnbound
        /\ (pc = "main" => report = "")
        /\ (pc = "exit" => report = "Failed to load data. Exiting.")

\* C4 witness: the run has ended on an existing file whose header has the
\* origin column but not the destination column
C4_Witness ==
    /\ pc = "exit"
    /\ file_exists
    /\ SRC \in Range(fieldnames)
    /\ DEST \notin Range(fieldnames)

----------------------------------------------------------------------------
(* C5 *)

\* C5 (as claimed): on an existing file with both required columns, whatever
\* its records hold, load_fare_data does not return the "no data" outcome and
\* the run goes on to analyze_savings instead of reporting a failed load.
C5_RecordProblemsNeverAbort ==
    (~SourceUnusable /\ pc \in {"main", "call", "pairs", "exit"}) =>
        /\ fare_data /= None
        /\ station_list /= None
        /\ report /= "Failed to load data. Exiting."

----------------------------------------------------------------------------
(* C6 *)

\* the full record with origin text a, destination text b and `text` in
\* every other field
FullRecord(a, b, text) ==
    [ i \in 1..Len(fieldnames) |->
        IF fieldnames[i] = SRC THEN a
        ELSE IF fieldnames[i] = DEST THEN b ELSE text ]

\* the full records with valid station identifiers whose fare field is `text`
RecordsWithFare(text) ==
    { FullRecord(a, b, text) : a \in IdTexts \ {"x"}, b \in IdTexts \ {"x"} }

\* the key a record with valid station identifiers is stored under
KeyOf(r) ==
    << ParseInt(RowGet(fieldnames, DictRow(fieldnames, r), SRC)).val,
       ParseInt(RowGet(fieldnames, DictRow(fieldnames, r), DEST)).val >>

\* what the table holds for (key, method): "absent" or the value
Held(f, key, method) ==
    IF key \in DOMAIN f /\ method \in DOMAIN f[key]
    THEN f[key][method] ELSE [tag |-> "absent"]

\* the table after load_fare_data has processed the record r in the
\* current state
AfterRecord(r) ==
    ProcessRow(fares, stations, fieldnames, DictRow(fieldnames, r)).fares

\* while the records are read: whichever record comes next, if its fare field
\* is empty processing it stores nothing for its (pair, method), and if its
\* fare field is no number processing it stores the marker
C6_LoadStep ==
    pc = "rows" =>
        /\ \A r \in RecordsWithFare("") :
             Held(AfterRecord(r), KeyOf(r), OCT) = Held(fares, KeyOf(r), OCT)
        /\ \A r \in RecordsWithFare("abc") :
             Held(AfterRecord(r), KeyOf(r), OCT) = None

\* the analysis never uses the marker or a missing fare as a direct fare or
\* as a leg, and ends with the savings of the table read with both as absent
C6_AnalysisSkipsUnknown ==
    InLoop =>
        /\ \A p \in Processed :
             Fare(Table, p[1], p[2], payment_method) = None
                => SavingsOf(p[1], p[2]) = {}
        /\ \A j \in 1..Len(saving_routes) :
             LET o == saving_routes[j][1]
                 i == saving_routes[j][2]
                 d == saving_routes[j][3]
             IN  /\ Fare(Table, o, d, payment_method) /= None
                 /\ Fare(Table, o, i, payment_method) /= None
                 /\ Fare(Table, i, d, payment_method) /= None
                 /\ savings_list[j] =
                      FSub(Fare(Table, o, d, payment_method), Combined(o, i, d))
        /\ (pc = "exit" => savings_list = SavingsFrom(1))

\* C6: a record whose fare field is empty makes load_fare_data store no value
\* (so never 0.0) for its (pair, method), a record whose fare field is no
\* number makes it store the invalid marker, and analyze_savings treats the
\* marker like a missing fare: neither is ever a direct fare or a leg of a
\* recorded saving.
C6_UnknownFareNeverANumber == C6_LoadStep /\ C6_AnalysisSkipsUnknown

\* C6 witness: the run has ended after the analysis of a table loaded from a
\* file with a record whose fare field was empty (a station of the list has
\* no entry at all) and a record whose fare field was no number: the table
\* holds the marker as the direct fare of a pair whose iteration is over
C6_Witness ==
    /\ pc = "exit"
    /\ InLoop
    /\ Range(StationSeq) /= TableStations
    /\ \E p \in Processed : Held(Table, p, payment_method) = None

----------------------------------------------------------------------------
(* C7 *)

\* C7 (as claimed): a run whose load returned a table with one or two
\* stations ends with the analysis done over S*(S-1) pairs, an empty saving
\* sequence and the "no savings found" report.
C7_FewStationsAnalyzed ==
    (pc = "exit" /\ station_list /= None /\ Len(StationSeq) \in {1, 2}) =>
        /\ report = "No savings found for any station pair."
        /\ total_pairs_analyzed = Len(StationSeq) * (Len(StationSeq) - 1)
        /\ savings_list = << >>

----------------------------------------------------------------------------
(* C8 *)

\* every amount the table f holds is the marker or a finite number >= 0
AmountsFiniteNonNegative(f) ==
    \A key \in DOMAIN f : \A method \in DOMAIN f[key] :
        f[key][method] /= None =>
            IsNum(f[key][method]) /\ f[key][method].val >= 0

\* C8 (as claimed): every fare amount present in the table load_fare_data
\* builds and returns is a finite non-negative number.
C8_LoadedAmountsFiniteNonNegative ==
    /\ AmountsFiniteNonNegative(fares)
    /\ fare_data /= None => AmountsFiniteNonNegative(Table)

----------------------------------------------------------------------------
(* C2 *)

\* C2 (as claimed): a pair without a direct fare never gets a saving, and
\* when analyze_savings has returned the total of pairs analyzed is S*(S-1).
C2_AllPairsCounted ==
    /\ InLoop =>
         \A p \in Processed :
            Fare(Table, p[1], p[2], payment_method) = None
               => SavingsOf(p[1], p[2]) = {}
    /\ (pc = "exit" /\ returned /= None) =>
         total_pairs_analyzed = Len(StationSeq) * (Len(StationSeq) - 1)

----------------------------------------------------------------------------
(* C9 *)

\* a step of analyze_savings leaves the fare table as it was
C9_Frame == pc \in {"call", "pairs"} => (fare_data' = fare_data)

\* C9: no step of analyze_savings changes the fare table (its keys and its
\* per-method values), and no key it looks up has origin = destination.
C9_TableOnlyRead ==
    [][C9_Frame]_vars /\ [](\A key \in queried : key[1] /= key[2])

\* C9 witness: the analysis has returned after looking up a direct fare and a
\* leg that have no entry, on a table that has an entry on the diagonal
C9_Witness ==
    /\ pc = "exit"
    /\ InLoop
    /\ \E s \in Range(StationSeq) : <<s, s>> \in DOMAIN Table
    /\ \E p \in Processed : p \notin DOMAIN Table
    /\ \E p \in Processed : \E i \in Range(StationSeq) \ {p[1], p[2]} :
         /\ Fare(Table, p[1], p[2], payment_method) /= None
         /\ <<p[1], i>> \in queried
         /\ <<p[1], i>> \notin DOMAIN Table

====
